---- MODULE Spec2Model ----
(***************************************************************************)
(* word-runner: the navigation / indexing core of src/document.rs.         *)
(*                                                                         *)
(* Text is a sequence of one-character strings; "\n" ends a physical line  *)
(* and " " separates tokens.  A section's raw payload is the parsed HTML:  *)
(* a sequence of blocks, each a paragraph of words or a preformatted line. *)
(* Option<T> is a sequence of length <= 1: None is <<>>, Some(x) is <<x>>. *)
(***************************************************************************)
EXTENDS Integers, Sequences, FiniteSets, TLC

VARIABLES
  cursor,    \* the DocumentCursor
  op,        \* the last call: its name,
  arg,       \*   its argument,
  ret,       \*   the value it returned,
  pre,       \*   and the cursor it was called on
  panicked,  \* a panic has unwound the process
  files,     \* the configuration directory: path -> Option<file content>
  loaded,    \* the DocState the last DocState::load returned
  expect,    \* per identifier, the DocState a load is due to return
  model,     \* main.rs Model without its cursor; elapsed is the time since
             \*   last_word_change
  pc,        \* where the main loop is: "draw", "handle_event", "update", "done"
  msg,       \* current_msg of the main loop
  term_width, \* the width of the content pane of the terminal
  origin,    \* what the last handle_event did: read an event, fired the timer
  quiet,     \* the last word advance came from the timer and no event was
             \*   read since
  calls      \* update() calls made so far in this iteration of the loop

storevars == <<files, loaded, expect>>
loopvars == <<model, pc, msg, term_width, origin, quiet, calls>>

vars == <<cursor, op, arg, ret, pre, panicked, storevars, loopvars>>

\* ------------------------------------------------------------------ bounds
\* Largest section index offered to DocumentCursor::new and goto_section.
MaxSectionIndex == 6
\* Largest word index a persisted DocState carries into DocumentCursor::new.
MaxWordIndex == 3

\* The width DocumentCursor::new renders the first section at.
DefaultSize == 80

\* The widths the presentation layer asks for (content_layout[1].width).
Widths == {1, 3, DefaultSize}

\* ------------------------------------------------------------- Option<T>
None == <<>>
Some(x) == <<x>>
unwrap_or_default(o) == IF o = None THEN 0 ELSE o[1]

first(s) == IF Len(s) = 0 THEN None ELSE Some(s[1])
last(s) == IF Len(s) = 0 THEN None ELSE Some(s[Len(s)])

\* ------------------------------------------------------------ documents
W(c) == <<c>>
P(words) == [tag |-> "p", words |-> words]
Pre(text) == [tag |-> "pre", text |-> text]
Node(index, name, children) == [index |-> index, name |-> name, children |-> children]
\* A payload holding a byte run that is not valid UTF-8.
Bytes == [tag |-> "bytes"]

\* The TOC of spec section 8: {A@0 -> [A1@0, A2@3], B@5}.
TocA == << Node(0, "A", << Node(0, "A1", <<>>), Node(3, "A2", <<>>) >>),
           Node(5, "B", <<>>) >>

\* spine: the raw payload of each section; toc: EpubDoc.1.
Docs ==
  [ book |->
      [ spine |-> << << P(<<W("a"), W("b"), W("c")>>), P(<<W("d"), W("e")>>) >>,
                     << P(<<W("f"), W("g")>>) >> >>,
        toc   |-> << Node(1, "Ch1", <<>>) >> ],
    parts |->
      [ spine |-> << << P(<<W("a"), W("b")>>) >>,
                     << P(<<W("c")>>) >>,
                     << >>,
                     << P(<<W("d"), W("e"), W("f")>>) >>,
                     << P(<<W("g")>>) >>,
                     << P(<<W("h"), W("i")>>) >> >>,
        toc   |-> TocA ],
    notes |->
      [ spine |-> << << P(<<W("a"), W("b")>>), Pre(<<" ", " ">>),
                        P(<<W("c"), W("d")>>) >>,
                     << Pre(<<" ", " ">>) >>,
                     << P(<<>>), P(<<>>) >> >>,
        toc   |-> << >> ],
    scan |->
      [ spine |-> << << P(<<W("a"), W("b")>>) >>,
                     << Bytes >>,
                     << P(<<W("c")>>) >> >>,
        toc   |-> << >> ] ]

DocIds == DOMAIN Docs

\* String::from_utf8: Err (None) for a payload that is not UTF-8.
String_from_utf8(raw_content) ==
  IF \E i \in 1..Len(raw_content) : raw_content[i].tag = "bytes" THEN None
  ELSE Some(raw_content)

\* The documents whose every payload decodes.
WellFormed ==
  {d \in DocIds : \A i \in 1..Len(Docs[d].spine) :
                     String_from_utf8(Docs[d].spine[i]) # None}

\* --------------------------------------------------- str and html2text
\* The pieces of s between separators, empty pieces included.
RECURSIVE SplitOn(_, _)
SplitOn(s, seps) ==
  IF s = <<>> THEN << <<>> >>
  ELSE LET rest == SplitOn(Tail(s), seps) IN
       IF Head(s) \in seps THEN << <<>> >> \o rest
       ELSE << <<Head(s)>> \o Head(rest) >> \o Tail(rest)

\* str::lines(): split on "\n"; a final empty piece is not a line.
str_lines(s) ==
  LET ps == SplitOn(s, {"\n"}) IN
  IF ps[Len(ps)] = <<>> THEN SubSeq(ps, 1, Len(ps) - 1) ELSE ps

\* str::split_whitespace(): the non-empty pieces between whitespace.
split_whitespace(s) == SelectSeq(SplitOn(s, {" ", "\t"}), LAMBDA p : p # <<>>)

\* Greedy word wrap of one paragraph: a word joins the line while the line
\* stays within width.  Words here are never longer than the width.
RECURSIVE wrap(_, _, _)
wrap(words, cur, width) ==
  IF words = <<>> THEN (IF cur = <<>> THEN <<>> ELSE <<cur>>)
  ELSE LET w == Head(words) IN
       IF cur = <<>> THEN wrap(Tail(words), w, width)
       ELSE IF Len(cur) + 1 + Len(w) <= width
            THEN wrap(Tail(words), cur \o <<" ">> \o w, width)
            ELSE <<cur>> \o wrap(Tail(words), w, width)

RECURSIVE join_lines(_)
join_lines(ls) ==
  IF ls = <<>> THEN <<>> ELSE Head(ls) \o <<"\n">> \o join_lines(Tail(ls))

block_text(b, width) ==
  IF b.tag = "p" THEN join_lines(wrap(b.words, <<>>, width))
  ELSE b.text \o <<"\n">>

\* html2text::from_read: blocks rendered in order, a blank line between two.
RECURSIVE from_read(_, _)
from_read(raw, width) ==
  IF raw = <<>> THEN <<>>
  ELSE block_text(Head(raw), width)
       \o (IF Len(raw) > 1 THEN <<"\n">> ELSE <<>>)
       \o from_read(Tail(raw), width)

\* ------------------------------------------------------------------ lines
\* The loop of lines(): ls are the non-empty physical lines still to index,
\* i the enumerate() counter, g global_words_index.
RECURSIVE lines_loop(_, _, _)
lines_loop(ls, i, g) ==
  IF ls = <<>> THEN <<>>
  ELSE LET l == Head(ls)
           n == Len(split_whitespace(l))
           valid_words == [j \in 1..n |-> g + (j - 1)]
           g2 == unwrap_or_default(last(valid_words))
       IN << [index |-> i, word_indexes |-> valid_words, content |-> l] >>
          \o lines_loop(Tail(ls), i + 1, g2)

lines(content) ==
  lines_loop(SelectSeq(str_lines(content), LAMBDA l : l # <<>>), 0, 0)

\* ------------------------------------------------------------------- Line
Line_first_word_index(l) == unwrap_or_default(first(l.word_indexes))
Line_last_word_index(l) == unwrap_or_default(last(l.word_indexes))

\* find_position: the 0-based position of the first entry equal to g.
Line_word_position(l, g) ==
  LET hits == {i \in 1..Len(l.word_indexes) : l.word_indexes[i] = g} IN
  IF hits = {} THEN None
  ELSE Some((CHOOSE i \in hits : \A k \in hits : i <= k) - 1)

Line_current_word(l, g) ==
  LET index == Line_word_position(l, g)
      toks == split_whitespace(l.content)
  IN IF index = None THEN None
     ELSE IF index[1] < Len(toks) THEN Some(toks[index[1] + 1]) ELSE None

Line_prev_word(l, g) ==
  LET line_index == Line_word_position(l, g) IN
  IF line_index = None THEN None
  ELSE IF line_index[1] > 0 THEN Some(l.word_indexes[line_index[1]])
       ELSE None

Line_next_word(l, g) ==
  LET line_index == Line_word_position(l, g) IN
  IF line_index = None THEN None
  ELSE IF line_index[1] < Len(l.word_indexes) - 1
       THEN Some(l.word_indexes[line_index[1] + 2])
       ELSE None

\* ---------------------------------------------------------- SectionCursor
\* #[derive(Default)]
SectionCursor_default ==
  [index |-> 0, content |-> <<>>, raw_content |-> <<>>, lines |-> <<>>,
   word_index |-> 0, line_index |-> 0, size |-> 0]

\* SectionCursor::new unwraps String::from_utf8: it panics on Err.
SectionCursor_new_panics(raw_content) == String_from_utf8(raw_content) = None

SectionCursor_new(number, raw_content, size) ==
  LET content == from_read(String_from_utf8(raw_content)[1], size)
      ls == lines(content)
      word_index == IF ls = <<>> THEN 0
                    ELSE unwrap_or_default(first(ls[1].word_indexes))
  IN [index |-> number, content |-> content, raw_content |-> raw_content,
      lines |-> ls, word_index |-> word_index, line_index |-> 0, size |-> size]

\* from_resize keeping the old line pointer instead of relocating it.
SectionCursor_from_resize_keep_line(other, size) ==
  LET result == SectionCursor_new(other.index, other.raw_content, size) IN
  [result EXCEPT !.word_index = other.word_index, !.line_index = other.line_index]

SectionCursor_from_resize(other, size) ==
  LET result == SectionCursor_new(other.index, other.raw_content, size)
      hits == {i \in 1..Len(result.lines) :
                  /\ Line_first_word_index(result.lines[i]) <= other.word_index
                  /\ other.word_index <= Line_last_word_index(result.lines[i])}
      line_index == IF hits = {} THEN 0
                    ELSE (CHOOSE i \in hits : \A k \in hits : i <= k) - 1
  IN [result EXCEPT !.word_index = other.word_index, !.line_index = line_index]

SectionCursor_line(s, index) ==
  IF index < Len(s.lines) THEN Some(s.lines[index + 1]) ELSE None

SectionCursor_current_line(s) == SectionCursor_line(s, s.line_index)

SectionCursor_current_word(s) ==
  LET l == SectionCursor_current_line(s) IN
  IF l = None THEN None ELSE Line_current_word(l[1], s.word_index)

\* Each mutating method yields the section afterwards and the value returned.
SectionCursor_next_line(s) ==
  IF s.line_index + 1 > Len(s.lines) THEN [s |-> s, ret |-> FALSE]
  ELSE LET s1 == [s EXCEPT !.line_index = s.line_index + 1]
           l == SectionCursor_current_line(s1)
           w == IF l = None THEN 0 ELSE Line_first_word_index(l[1])
       IN [s |-> [s1 EXCEPT !.word_index = w], ret |-> TRUE]

SectionCursor_prev_line(s) ==
  IF s.line_index = 0 THEN [s |-> s, ret |-> FALSE]
  ELSE LET s1 == [s EXCEPT !.line_index = s.line_index - 1]
           l == SectionCursor_current_line(s1)
           w == IF l = None THEN 0 ELSE Line_last_word_index(l[1])
       IN [s |-> [s1 EXCEPT !.word_index = w], ret |-> TRUE]

SectionCursor_prev_word(s) ==
  LET l == SectionCursor_current_line(s)
      index == IF l = None THEN None ELSE Line_prev_word(l[1], s.word_index)
  IN IF index # None THEN [s |-> [s EXCEPT !.word_index = index[1]], ret |-> TRUE]
     ELSE SectionCursor_prev_line(s)

SectionCursor_next_word(s) ==
  LET l == SectionCursor_current_line(s)
      index == IF l = None THEN None ELSE Line_next_word(l[1], s.word_index)
  IN IF index # None THEN [s |-> [s EXCEPT !.word_index = index[1]], ret |-> TRUE]
     ELSE SectionCursor_next_line(s)

\* ------------------------------------------- epub::doc::EpubDoc (the spine)
get_num_pages(doc) == Len(Docs[doc].spine)

\* set_current_page, go_next, go_prev: the page afterwards and the result.
set_current_page(doc, current, n) ==
  IF n >= get_num_pages(doc) THEN [current |-> current, ret |-> FALSE]
  ELSE [current |-> n, ret |-> TRUE]

go_next(doc, current) ==
  IF current + 1 >= get_num_pages(doc) THEN [current |-> current, ret |-> FALSE]
  ELSE [current |-> current + 1, ret |-> TRUE]

go_prev(doc, current) ==
  IF current < 1 THEN [current |-> current, ret |-> FALSE]
  ELSE [current |-> current - 1, ret |-> TRUE]

get_current(doc, current) ==
  IF current < get_num_pages(doc) THEN Some(Docs[doc].spine[current + 1]) ELSE None

\* --------------------------------------------------------- DocumentCursor
DocState_new(identifier) ==
  [identifier |-> identifier, section_index |-> 0, word_index |-> 0]

DocumentCursor_new(doc, doc_state) ==
  LET current == set_current_page(doc, 0, doc_state.section_index).current
      c == get_current(doc, current)
      current_section == IF c = None THEN SectionCursor_default
                         ELSE SectionCursor_new(current, c[1], DefaultSize)
  IN [doc |-> doc, current |-> current,
      current_section |-> [current_section EXCEPT !.word_index = doc_state.word_index]]

section_index(c) == c.current

\* doc_state(): the snapshot to persist; the identifier of a document is
\* its name.
DocumentCursor_doc_state(c) ==
  [identifier |-> c.doc,
   section_index |-> c.current_section.index,
   word_index |-> c.current_section.word_index]

\* DocumentCursor::new and load_section panic when the page they build the
\* section from does not decode.
DocumentCursor_new_panics(doc, doc_state) ==
  LET current == set_current_page(doc, 0, doc_state.section_index).current
      c == get_current(doc, current)
  IN c # None /\ SectionCursor_new_panics(c[1])

load_section_panics(c) ==
  LET raw == get_current(c.doc, c.current) IN
  raw # None /\ SectionCursor_new_panics(raw[1])

\* load_section rendering at the initial width instead of the width in use.
load_section_default_size(c) ==
  LET raw == get_current(c.doc, c.current) IN
  [c EXCEPT !.current_section =
      IF raw = None THEN SectionCursor_default
      ELSE SectionCursor_new(c.current, raw[1], DefaultSize)]

load_section(c) ==
  LET raw == get_current(c.doc, c.current) IN
  [c EXCEPT !.current_section =
      IF raw = None THEN SectionCursor_default
      ELSE SectionCursor_new(c.current, raw[1], c.current_section.size)]

\* current_section_or_resize rebuilding the section on every call.
current_section_or_resize_always(c, size) ==
  [c EXCEPT !.current_section = SectionCursor_from_resize(c.current_section, size)]

current_section_or_resize(c, size) ==
  IF c.current_section.size # size
  THEN [c EXCEPT !.current_section = SectionCursor_from_resize(c.current_section, size)]
  ELSE c

\* goto_section with the result of set_current_page ignored.
goto_section_unchecked(c, index) ==
  LET r == set_current_page(c.doc, c.current, index) IN
  [c |-> load_section([c EXCEPT !.current = r.current]), ret |-> TRUE]

goto_section(c, index) ==
  LET r == set_current_page(c.doc, c.current, index) IN
  IF r.ret THEN [c |-> load_section([c EXCEPT !.current = r.current]), ret |-> TRUE]
  ELSE [c |-> c, ret |-> FALSE]

prev_section(c) ==
  LET r == go_prev(c.doc, c.current) IN
  IF r.ret THEN [c |-> load_section([c EXCEPT !.current = r.current]), ret |-> TRUE]
  ELSE [c |-> c, ret |-> FALSE]

\* next_section reloading the section also when go_next refuses.
next_section_reload(c) ==
  LET r == go_next(c.doc, c.current) IN
  [c |-> load_section([c EXCEPT !.current = r.current]), ret |-> r.ret]

next_section(c) ==
  LET r == go_next(c.doc, c.current) IN
  IF r.ret THEN [c |-> load_section([c EXCEPT !.current = r.current]), ret |-> TRUE]
  ELSE [c |-> c, ret |-> FALSE]

\* The while loop of toc_index: i is the 0-based loop variable, s the
\* cursor's section index; the value is i when the loop ends.
RECURSIVE toc_scan(_, _, _)
toc_scan(toc, s, i) ==
  IF i < Len(toc) - 1
  THEN IF toc[i + 1].index >= s /\ s < toc[i + 2].index THEN i
       ELSE toc_scan(toc, s, i + 1)
  ELSE i

\* toc_index without the early return for a section before the first node.
RECURSIVE toc_index_no_precede(_, _)
toc_index_no_precede(c, toc) ==
  IF toc = <<>> THEN <<>>
  ELSE LET i == toc_scan(toc, section_index(c), 0) IN
       <<toc[i + 1].index>>
       \o (IF toc[i + 1].children # <<>>
           THEN toc_index_no_precede(c, toc[i + 1].children)
           ELSE <<>>)

\* toc_index(cursor, toc); the first guard reads the document's top level.
RECURSIVE toc_index(_, _)
toc_index(c, toc) ==
  IF toc = <<>> \/ section_index(c) < Docs[c.doc].toc[1].index THEN <<>>
  ELSE LET i == toc_scan(toc, section_index(c), 0) IN
       <<toc[i + 1].index>>
       \o (IF toc[i + 1].children # <<>> THEN toc_index(c, toc[i + 1].children)
           ELSE <<>>)

DocumentCursor_toc_index(c) == toc_index(c, Docs[c.doc].toc)

\* --------------------------------------------------------------- DocState
\* Largest section / word index a stored DocState carries.
MaxStored == 12

\* "./x" names the same file as "x" once joined to the directory.
Identifiers == {"x", "y", "./x"}
StoredValues == {3, MaxStored}
DocStates ==
  {[identifier |-> id, section_index |-> a, word_index |-> b] :
     id \in Identifiers, a \in StoredValues, b \in StoredValues}

\* File content is a sequence of JSON lexemes; a number is its decimal
\* digits, one lexeme each.
DigitChars == <<"0", "1", "2", "3", "4", "5", "6", "7", "8", "9">>

RECURSIVE digits(_)
digits(n) ==
  IF n < 10 THEN <<DigitChars[n + 1]>>
  ELSE digits(n \div 10) \o <<DigitChars[(n % 10) + 1]>>

Quoted(id) ==
  CASE id = "x" -> "\"x\"" [] id = "y" -> "\"y\"" [] id = "./x" -> "\"./x\""

\* serde_json::to_writer of the derived Serialize: the fields in order.
to_json(st) ==
  <<"{", "\"identifier\"", ":", Quoted(st.identifier), ",">>
  \o <<"\"section_index\"", ":">> \o digits(st.section_index) \o <<",">>
  \o <<"\"word_index\"", ":">> \o digits(st.word_index) \o <<"}">>

DigitValue(c) == (CHOOSE k \in 1..10 : DigitChars[k] = c) - 1

RECURSIVE number_value(_, _)
number_value(ds, acc) ==
  IF ds = <<>> THEN acc
  ELSE number_value(Tail(ds), acc * 10 + DigitValue(Head(ds)))

\* A JSON number for a usize field: digits only, no leading zero.
parse_number(ds) ==
  IF /\ ds # <<>>
     /\ \A k \in 1..Len(ds) : \E d \in 1..10 : DigitChars[d] = ds[k]
     /\ (Len(ds) > 1 => ds[1] # "0")
  THEN Some(number_value(ds, 0))
  ELSE None

\* serde_json::from_str::<DocState>: Some(state), or None for text that
\* does not decode.  Text is accepted in the layout to_json writes.
from_str(text) ==
  LET ps == SplitOn(text, {","}) IN
  IF Len(ps) # 3 THEN None
  ELSE LET p1 == ps[1]
           p2 == ps[2]
           p3 == ps[3]
       IN IF /\ Len(p1) = 4 /\ Len(p2) >= 3 /\ Len(p3) >= 4
             /\ SubSeq(p1, 1, 3) = <<"{", "\"identifier\"", ":">>
             /\ \E id \in Identifiers : Quoted(id) = p1[4]
             /\ SubSeq(p2, 1, 2) = <<"\"section_index\"", ":">>
             /\ SubSeq(p3, 1, 2) = <<"\"word_index\"", ":">>
             /\ p3[Len(p3)] = "}"
             /\ parse_number(SubSeq(p2, 3, Len(p2))) # None
             /\ parse_number(SubSeq(p3, 3, Len(p3) - 1)) # None
          THEN Some([identifier |-> CHOOSE id \in Identifiers : Quoted(id) = p1[4],
                     section_index |-> parse_number(SubSeq(p2, 3, Len(p2)))[1],
                     word_index |-> parse_number(SubSeq(p3, 3, Len(p3) - 1))[1]])
          ELSE None

\* The components of an identifier read as a relative path.
components(identifier) ==
  CASE identifier = "x" -> <<"x">>
    [] identifier = "y" -> <<"y">>
    [] identifier = "./x" -> <<".", "x">>

\* config_dir.join(identifier)
ConfigDir == "config"
join(config_dir, identifier) == <<config_dir>> \o components(identifier)

\* The file a path names: a "." component stays in the same directory.
IsNotCurDir(c) == c # "."
resolve(path) == SelectSeq(path, IsNotCurDir)
config_path(identifier) == resolve(join(ConfigDir, identifier))
Paths == {config_path(id) : id \in Identifiers}

\* Content that is not UTF-8: read_to_string fails on it.
Unreadable == <<"<bytes>">>
\* Content cut short: what a failed write can leave behind.
Truncated == <<"{", "\"identifier\"", ":">>

\* std::fs::read_to_string(path).ok()
read_to_string(fs, path) ==
  IF fs[path] = None \/ fs[path][1] = Unreadable THEN None ELSE fs[path]

\* DocState::load answering the decode error instead of the default.
DocState_load_unwrap(fs, identifier) ==
  LET state == read_to_string(fs, config_path(identifier)) IN
  IF state # None
  THEN (IF from_str(state[1]) = None
        THEN [identifier |-> "error", section_index |-> 0, word_index |-> 0]
        ELSE from_str(state[1])[1])
  ELSE DocState_new(identifier)

DocState_load(fs, identifier) ==
  LET state == read_to_string(fs, config_path(identifier)) IN
  IF state # None
  THEN (IF from_str(state[1]) = None THEN DocState_new(identifier)
        ELSE from_str(state[1])[1])
  ELSE DocState_new(identifier)

\* What the file system does to a store: it goes through, File::create
\* fails, or the file is created (emptied) and the write or flush fails.
IoOutcomes == {"ok", "create_fails", "write_fails"}

\* DocState::store: the directory afterwards and the Result.
DocState_store(st, fs, io) ==
  LET config_path_ == config_path(st.identifier) IN
  IF io = "create_fails" THEN [fs |-> fs, ret |-> "Err"]
  ELSE IF io = "write_fails"
       THEN [fs |-> [fs EXCEPT ![config_path_] = Some(<<>>)], ret |-> "Err"]
       ELSE [fs |-> [fs EXCEPT ![config_path_] = Some(to_json(st))], ret |-> "Ok"]

\* ---------------------------------------------------------------- main.rs
\* event::poll waits this long, in milliseconds.
PollTimeout == 250
\* IncreaseSpeed / DecreaseSpeed change the pace by this much.
SpeedStep == 25
\* The pace given on the command line.
ArgSpeed == 100
\* Largest pace DecreaseSpeed is let to reach.
MaxSpeed == 125
\* The time since last_word_change is kept up to this value; it is above
\* every pace, so comparing it to the pace is exact.
MaxElapsed == 2 * PollTimeout

Keys == {"q", "t", "c", "Right", "Left", "Up", "Down", "PageUp", "PageDown",
         "+", "-", " ", "Enter", "Esc"}

\* crossterm events: a key press, or the terminal resized.
Events ==
  {[kind |-> "Key", code |-> k, width |-> 0] : k \in Keys}
  \cup {[kind |-> "Resize", code |-> "", width |-> w] : w \in Widths}

\* An event arrives this long after event::poll began waiting.
Delays == {0, PollTimeout \div 2}

Min(a, b) == IF a < b THEN a ELSE b

\* The match on key.code of handle_event.
key_message(m, code) ==
  CASE code = "q" -> Some("Quit")
    [] code = "t" -> Some("ChangeFocus(TableOfContents)")
    [] code = "c" -> Some("ChangeFocus(Content)")
    [] OTHER ->
       IF m.focus = "Content"
       THEN CASE code = "Right" -> Some("NextWord")
              [] code = "Left" -> Some("PrevWord")
              [] code = "Up" -> Some("PrevLine")
              [] code = "Down" -> Some("NextLine")
              [] code = "PageUp" -> Some("PrevSection")
              [] code = "PageDown" -> Some("NextSection")
              [] code = "+" -> Some("IncreaseSpeed")
              [] code = "-" -> Some("DecreaseSpeed")
              [] code = " " -> Some("ToggleStatus")
              [] OTHER -> None
       ELSE CASE code = "Enter" -> Some("TableOfContentsMessage(Select)")
              [] code = "Left" -> Some("TableOfContentsMessage(Left)")
              [] code = "Right" -> Some("TableOfContentsMessage(Right)")
              [] code = "Down" -> Some("TableOfContentsMessage(Down)")
              [] code = "Up" -> Some("TableOfContentsMessage(Up)")
              [] OTHER -> None

\* handle_event with the timer branch not looking at the status.
handle_event_any_status(m, polled) ==
  IF polled # None
  THEN [ret |-> IF polled[1].kind = "Key" THEN key_message(m, polled[1].code)
                ELSE None,
        read |-> TRUE, timer |-> FALSE]
  ELSE IF m.elapsed >= m.speed
       THEN [ret |-> Some("NextWord"), read |-> FALSE, timer |-> TRUE]
       ELSE [ret |-> None, read |-> FALSE, timer |-> FALSE]

\* handle_event: polled is Some(event) when event::poll answered true, None
\* when it timed out; m.elapsed is last_word_change.elapsed() at that time.
\* read tells that event::read() was called, timer that the message comes
\* from the timer branch.
handle_event(m, polled) ==
  IF polled # None
  THEN [ret |-> IF polled[1].kind = "Key" THEN key_message(m, polled[1].code)
                ELSE None,
        read |-> TRUE, timer |-> FALSE]
  ELSE IF m.status = "Running" /\ m.elapsed >= m.speed
       THEN [ret |-> Some("NextWord"), read |-> FALSE, timer |-> TRUE]
       ELSE [ret |-> None, read |-> FALSE, timer |-> FALSE]

\* tui_tree_widget::TreeState as update uses it: depth is the length of the
\* selected path, opened tells whether the selected node is open.
toc_depth(doc) ==
  IF Docs[doc].toc = <<>> THEN 0
  ELSE IF \E i \in 1..Len(Docs[doc].toc) : Docs[doc].toc[i].children # <<>>
       THEN 2 ELSE 1

key_left(t) ==
  IF t.opened THEN [t EXCEPT !.opened = FALSE]
  ELSE [t EXCEPT !.depth = IF t.depth > 0 THEN t.depth - 1 ELSE 0]

key_right(t) == IF t.depth > 0 THEN [t EXCEPT !.opened = TRUE] ELSE t

key_down(t, doc) ==
  IF t.depth = 0 THEN [t EXCEPT !.depth = Min(1, toc_depth(doc))]
  ELSE IF t.opened /\ t.depth < toc_depth(doc)
       THEN [depth |-> t.depth + 1, opened |-> FALSE]
       ELSE t

key_up(t, doc) ==
  IF t.depth = 0 THEN [t EXCEPT !.depth = Min(1, toc_depth(doc))]
  ELSE IF t.depth > 1 THEN [depth |-> t.depth - 1, opened |-> TRUE]
       ELSE t

\* update panics when the section it moves to does not decode.
update_panics(c, message) ==
  \/ /\ message = "PrevSection"
     /\ go_prev(c.doc, c.current).ret
     /\ load_section_panics([c EXCEPT !.current = go_prev(c.doc, c.current).current])
  \/ /\ message = "NextSection"
     /\ go_next(c.doc, c.current).ret
     /\ load_section_panics([c EXCEPT !.current = go_next(c.doc, c.current).current])

\* Message::PrevSection / Message::NextSection answering with a word
\* message after the section call.
turn_section_then_word(m, c, message) ==
  IF message = "PrevSection"
  THEN [m |-> m, c |-> prev_section(c).c, ret |-> Some("PrevWord")]
  ELSE [m |-> m, c |-> next_section(c).c, ret |-> Some("NextWord")]

\* Message::PrevSection / Message::NextSection: the result of the section
\* call is dropped and no message follows.
turn_section(m, c, message) ==
  IF message = "PrevSection"
  THEN [m |-> m, c |-> prev_section(c).c, ret |-> None]
  ELSE [m |-> m, c |-> next_section(c).c, ret |-> None]

\* update: the model and the cursor afterwards, and the follow-up message.
update(m, c, message) ==
  LET same == [m |-> m, c |-> c, ret |-> None]
      moved(r, follow) ==
        [m |-> m, c |-> [c EXCEPT !.current_section = r.s],
         ret |-> IF ~r.ret THEN Some(follow) ELSE None]
      toc(t) == [same EXCEPT !.m = [m EXCEPT !.table_of_contents_state = t]]
  IN
  CASE message = "Quit" -> [same EXCEPT !.m = [m EXCEPT !.should_quit = TRUE]]
    [] message = "PrevWord" ->
         moved(SectionCursor_prev_word(c.current_section), "PrevSection")
    [] message = "NextWord" ->
         [moved(SectionCursor_next_word(c.current_section), "NextSection")
            EXCEPT !.m = [m EXCEPT !.elapsed = 0]]
    [] message = "PrevLine" ->
         moved(SectionCursor_prev_line(c.current_section), "PrevSection")
    [] message = "NextLine" ->
         moved(SectionCursor_next_line(c.current_section), "NextSection")
    [] message = "PrevSection" -> turn_section(m, c, message)
    [] message = "NextSection" -> turn_section(m, c, message)
    [] message = "DecreaseSpeed" ->
         [same EXCEPT !.m = [m EXCEPT !.speed = m.speed + SpeedStep]]
    [] message = "IncreaseSpeed" ->
         [same EXCEPT !.m = [m EXCEPT !.speed =
                               IF m.speed >= SpeedStep THEN m.speed - SpeedStep
                               ELSE 0]]
    [] message = "ToggleStatus" ->
         IF m.status = "Running"
         THEN [same EXCEPT !.m = [m EXCEPT !.status = "Paused"]]
         ELSE [m |-> [m EXCEPT !.status = "Running"], c |-> c,
               ret |-> Some("NextWord")]
    [] message = "ChangeFocus(Content)" ->
         [same EXCEPT !.m = [m EXCEPT !.focus = "Content"]]
    [] message = "ChangeFocus(TableOfContents)" ->
         [same EXCEPT !.m = [m EXCEPT !.focus = "TableOfContents"]]
    [] message = "TableOfContentsMessage(Select)" ->
         IF m.table_of_contents_state.depth > 0
         THEN [same EXCEPT !.ret = Some("ChangeFocus(Content)")]
         ELSE same
    [] message = "TableOfContentsMessage(Left)" ->
         toc(key_left(m.table_of_contents_state))
    [] message = "TableOfContentsMessage(Right)" ->
         toc(key_right(m.table_of_contents_state))
    [] message = "TableOfContentsMessage(Down)" ->
         toc(key_down(m.table_of_contents_state, c.doc))
    [] message = "TableOfContentsMessage(Up)" ->
         toc(key_up(m.table_of_contents_state, c.doc))

\* content() indexes the tokens of the current line: split[pos] with
\* pos = word_index - first_word_index, or split[0].
content_panics(section) ==
  LET current_line == SectionCursor_current_line(section) IN
  /\ current_line # None
  /\ LET n == Len(split_whitespace(current_line[1].content))
         first_word_index == Line_first_word_index(current_line[1])
     IN IF section.word_index # first_word_index
        THEN \/ section.word_index < first_word_index
             \/ section.word_index - first_word_index >= n
        ELSE n = 0

\* ---------------------------------------------------------------- actions
LoopIdle ==
  /\ model = <<>>
  /\ pc = "idle"
  /\ msg = <<>>
  /\ term_width = 0
  /\ origin = <<>>
  /\ quiet = FALSE
  /\ calls = 0

\* The configuration directory is not touched by the cursor's operations.
StoreIdle ==
  /\ files = <<>>
  /\ loaded = <<>>
  /\ expect = <<>>

\* The cursor built by DocumentCursor::new(doc, doc_state), or the panic.
Construct(doc, doc_state) ==
  /\ op = "new"
  /\ arg = doc_state
  /\ ret = TRUE
  /\ IF DocumentCursor_new_panics(doc, doc_state)
     THEN /\ panicked = TRUE
          /\ cursor = [doc |-> doc, current |-> 0,
                       current_section |-> SectionCursor_default]
          /\ pre = cursor
     ELSE /\ panicked = FALSE
          /\ cursor = DocumentCursor_new(doc, doc_state)
          /\ pre = DocumentCursor_new(doc, doc_state)

Init ==
  \E doc \in WellFormed, si \in 0..MaxSectionIndex, wi \in 0..MaxWordIndex :
    /\ Construct(doc, [identifier |-> doc, section_index |-> si, word_index |-> wi])
    /\ StoreIdle
    /\ LoopIdle

\* The call unwinds: nothing is returned and no further call is made.
Panic ==
  /\ panicked' = TRUE
  /\ op' = "panic"
  /\ pre' = cursor
  /\ UNCHANGED <<cursor, arg, ret>>

NextWord ==
  /\ ~panicked
  /\ LET r == SectionCursor_next_word(cursor.current_section) IN
     /\ cursor' = [cursor EXCEPT !.current_section = r.s]
     /\ op' = "next_word" /\ arg' = 0 /\ ret' = r.ret /\ pre' = cursor
  /\ UNCHANGED <<panicked, storevars, loopvars>>

PrevWord ==
  /\ ~panicked
  /\ LET r == SectionCursor_prev_word(cursor.current_section) IN
     /\ cursor' = [cursor EXCEPT !.current_section = r.s]
     /\ op' = "prev_word" /\ arg' = 0 /\ ret' = r.ret /\ pre' = cursor
  /\ UNCHANGED <<panicked, storevars, loopvars>>

NextLine ==
  /\ ~panicked
  /\ LET r == SectionCursor_next_line(cursor.current_section) IN
     /\ cursor' = [cursor EXCEPT !.current_section = r.s]
     /\ op' = "next_line" /\ arg' = 0 /\ ret' = r.ret /\ pre' = cursor
  /\ UNCHANGED <<panicked, storevars, loopvars>>

PrevLine ==
  /\ ~panicked
  /\ LET r == SectionCursor_prev_line(cursor.current_section) IN
     /\ cursor' = [cursor EXCEPT !.current_section = r.s]
     /\ op' = "prev_line" /\ arg' = 0 /\ ret' = r.ret /\ pre' = cursor
  /\ UNCHANGED <<panicked, storevars, loopvars>>

NextSection ==
  /\ ~panicked
  /\ LET m == go_next(cursor.doc, cursor.current) IN
     IF m.ret /\ load_section_panics([cursor EXCEPT !.current = m.current])
     THEN Panic
     ELSE LET r == next_section(cursor) IN
          /\ cursor' = r.c
          /\ op' = "next_section" /\ arg' = 0 /\ ret' = r.ret /\ pre' = cursor
          /\ UNCHANGED panicked
  /\ UNCHANGED <<storevars, loopvars>>

PrevSection ==
  /\ ~panicked
  /\ LET m == go_prev(cursor.doc, cursor.current) IN
     IF m.ret /\ load_section_panics([cursor EXCEPT !.current = m.current])
     THEN Panic
     ELSE LET r == prev_section(cursor) IN
          /\ cursor' = r.c
          /\ op' = "prev_section" /\ arg' = 0 /\ ret' = r.ret /\ pre' = cursor
          /\ UNCHANGED panicked
  /\ UNCHANGED <<storevars, loopvars>>

GotoSection ==
  /\ ~panicked
  /\ \E index \in 0..MaxSectionIndex :
       LET m == set_current_page(cursor.doc, cursor.current, index) IN
       IF m.ret /\ load_section_panics([cursor EXCEPT !.current = m.current])
       THEN Panic
       ELSE LET r == goto_section(cursor, index) IN
            /\ cursor' = r.c
            /\ op' = "goto_section" /\ arg' = index /\ ret' = r.ret /\ pre' = cursor
            /\ UNCHANGED panicked
  /\ UNCHANGED <<storevars, loopvars>>

Resize ==
  /\ ~panicked
  /\ \E size \in Widths :
       /\ cursor' = current_section_or_resize(cursor, size)
       /\ op' = "current_section_or_resize" /\ arg' = size /\ ret' = TRUE
       /\ pre' = cursor
  /\ UNCHANGED <<panicked, storevars, loopvars>>

TocIndex ==
  /\ ~panicked
  /\ op' = "toc_index" /\ arg' = 0 /\ ret' = DocumentCursor_toc_index(cursor)
  /\ pre' = cursor
  /\ UNCHANGED <<cursor, panicked, storevars, loopvars>>

Next ==
  \/ NextWord
  \/ PrevWord
  \/ NextLine
  \/ PrevLine
  \/ NextSection
  \/ PrevSection
  \/ GotoSection
  \/ Resize
  \/ TocIndex

Spec == Init /\ [][Next]_vars

\* The same operations over every document, the one with a payload that is
\* not UTF-8 included.
InitPayload ==
  \E doc \in DocIds, si \in 0..MaxSectionIndex, wi \in 0..MaxWordIndex :
    /\ Construct(doc, [identifier |-> doc, section_index |-> si, word_index |-> wi])
    /\ StoreIdle
    /\ LoopIdle

SpecPayload == InitPayload /\ [][Next]_vars

\* ------------------------------------------------ Position State actions
\* What a configuration file can hold when the session starts.
InitialFiles(id) ==
  {None, Some(<<>>), Some(Truncated), Some(Unreadable),
   Some(to_json([identifier |-> id, section_index |-> 3, word_index |-> 0]))}

\* expect[id] is None after a store under id failed, else the state a load
\* of id returned at the start or the state stored under id since.
InitState ==
  /\ \E fx \in InitialFiles("x"), fy \in InitialFiles("y") :
       files = [p \in Paths |-> IF p = config_path("x") THEN fx ELSE fy]
  /\ loaded = None
  /\ expect = [id \in Identifiers |->
                 Some([state |-> DocState_load(files, id), stored |-> FALSE])]
  /\ op = "new" /\ arg = 0 /\ ret = "Ok"
  /\ panicked = FALSE
  /\ cursor = [doc |-> "book", current |-> 0, current_section |-> SectionCursor_default]
  /\ pre = cursor
  /\ LoopIdle

Store ==
  \E st \in DocStates, io \in IoOutcomes :
    LET r == DocState_store(st, files, io) IN
    /\ files' = r.fs
    /\ op' = "store" /\ arg' = st /\ ret' = r.ret
    /\ expect' = [expect EXCEPT ![st.identifier] =
                    IF r.ret = "Ok" THEN Some([state |-> st, stored |-> TRUE])
                    ELSE None]
    /\ UNCHANGED <<loaded, cursor, pre, panicked, loopvars>>

Load ==
  \E identifier \in Identifiers :
    /\ loaded' = Some(DocState_load(files, identifier))
    /\ op' = "load" /\ arg' = identifier /\ ret' = "Ok"
    /\ UNCHANGED <<files, expect, cursor, pre, panicked, loopvars>>

NextState ==
  \/ Store
  \/ Load

SpecState == InitState /\ [][NextState]_vars

\* ------------------------------------------------------ main loop actions
\* main() up to the loop: the model of a freshly opened document.
InitLoop ==
  /\ \E doc \in WellFormed :
       /\ cursor = DocumentCursor_new(doc, DocState_new(doc))
       /\ pre = cursor
  /\ \E w \in Widths : term_width = w
  /\ model = [should_quit |-> FALSE,
              table_of_contents_state |-> [depth |-> 0, opened |-> FALSE],
              elapsed |-> 0, speed |-> ArgSpeed,
              status |-> "Paused", focus |-> "Content"]
  /\ pc = "draw"
  /\ msg = None
  /\ origin = [read |-> FALSE, timer |-> FALSE]
  /\ quiet = FALSE
  /\ calls = 0
  /\ op = "new" /\ arg = 0 /\ ret = None
  /\ panicked = FALSE
  /\ StoreIdle

\* terminal.draw(view), then the should_quit test.
View ==
  /\ pc = "draw" /\ ~panicked
  /\ LET c == current_section_or_resize(cursor, term_width) IN
     IF content_panics(c.current_section)
     THEN Panic /\ UNCHANGED <<storevars, loopvars>>
     ELSE /\ cursor' = c
          /\ pc' = IF model.should_quit THEN "done" ELSE "handle_event"
          /\ op' = "view" /\ arg' = term_width /\ ret' = None /\ pre' = cursor
          /\ calls' = 0
          /\ UNCHANGED <<panicked, storevars, model, msg, term_width, origin, quiet>>

\* handle_event: an event arrives within the poll timeout, or none does.
Polled(polled, d) ==
  LET waited == IF polled = None THEN PollTimeout ELSE d
      m == [model EXCEPT !.elapsed = Min(model.elapsed + waited, MaxElapsed)]
      r == handle_event(m, polled)
  IN /\ (polled = None => d = 0)
     /\ (r.ret = Some("DecreaseSpeed") => m.speed + SpeedStep <= MaxSpeed)
     /\ model' = m
     /\ msg' = r.ret
     /\ origin' = [read |-> r.read, timer |-> r.timer]
     /\ term_width' = IF polled # None /\ polled[1].kind = "Resize"
                      THEN polled[1].width ELSE term_width
     /\ quiet' = (quiet /\ ~r.read)
     /\ pc' = IF r.ret = None THEN "draw" ELSE "update"
     /\ op' = "handle_event" /\ arg' = waited /\ ret' = r.ret
     /\ pre' = cursor
     /\ UNCHANGED <<cursor, panicked, storevars, calls>>

HandleEvent ==
  /\ pc = "handle_event" /\ ~panicked
  /\ \E polled \in {None} \cup {Some(e) : e \in Events}, d \in Delays :
       Polled(polled, d)

\* One turn of the while loop: update(model, current_msg.unwrap()).
Update ==
  /\ pc = "update" /\ ~panicked
  /\ IF update_panics(cursor, msg[1])
     THEN Panic /\ UNCHANGED <<storevars, loopvars>>
     ELSE LET r == update(model, cursor, msg[1]) IN
          /\ model' = r.m
          /\ cursor' = r.c
          /\ msg' = r.ret
          /\ quiet' = IF msg[1] = "NextWord" THEN origin.timer ELSE quiet
          /\ calls' = calls + 1
          /\ pc' = IF r.ret = None THEN "draw" ELSE "update"
          /\ op' = "update" /\ arg' = 0 /\ ret' = r.ret /\ pre' = cursor
          /\ UNCHANGED <<panicked, storevars, term_width, origin>>

NextLoop ==
  \/ View
  \/ HandleEvent
  \/ Update

SpecLoop == InitLoop /\ [][NextLoop]_vars

\* ------------------------------------------------------ unattended reading
\* The reader presses Space once and then leaves the keyboard alone: the
\* only event read is that key press, every later poll times out.
HandleEventStart ==
  /\ pc = "handle_event" /\ ~panicked
  /\ model.status = "Paused" /\ model.focus = "Content"
  /\ Polled(Some([kind |-> "Key", code |-> " ", width |-> 0]), 0)

HandleEventTimeout ==
  /\ pc = "handle_event" /\ ~panicked
  /\ model.status = "Running"
  /\ Polled(None, 0)

NextAuto ==
  \/ View
  \/ HandleEventStart
  \/ HandleEventTimeout
  \/ Update

\* terminal.draw and update return: the loop does not stay in either
\* unless a panic has ended the process.
Returns == []<>(panicked \/ pc \notin {"draw", "update"})

\* The loop keeps iterating and event::poll keeps returning.
SpecAuto ==
  /\ InitLoop /\ [][NextAuto]_vars
  /\ WF_vars(HandleEventStart) /\ WF_vars(HandleEventTimeout)
  /\ Returns

\* ================================================================= claims
cs == cursor.current_section
pcs == pre.current_section

\* The cursor s stands on the last word of the last line of its section.
OnLastWord(s) ==
  /\ Len(s.lines) > 0
  /\ s.line_index = Len(s.lines) - 1
  /\ LET l == s.lines[Len(s.lines)] IN
     /\ l.word_indexes # <<>>
     /\ Line_word_position(l, s.word_index) = Some(Len(l.word_indexes) - 1)

\* line_index names an indexed line and word_index lies within its range.
InRange(s) ==
  /\ s.line_index < Len(s.lines)
  /\ LET l == s.lines[s.line_index + 1] IN
     /\ l.word_indexes # <<>>
     /\ l.word_indexes[1] <= s.word_index
     /\ s.word_index <= l.word_indexes[Len(l.word_indexes)]

\* C1: on a non-empty section with the cursor on the last word of the last
\* line, next_word() returns false and leaves the cursor on an indexed line
\* with current_word() defined.
C1_NextWordSignalsBoundary ==
  (op = "next_word" /\ OnLastWord(pcs)) =>
     /\ ret = FALSE
     /\ cs.line_index < Len(cs.lines)
     /\ SectionCursor_current_word(cs) # None

\* C2: in every reachable state, if the active section has at least one
\* line then line_index < number of lines and word_index lies within the
\* first..last word positions of the line at line_index.
C2_CursorPositionInvariant ==
  Len(cs.lines) > 0 => InRange(cs)

RECURSIVE AllWordIndexes(_)
AllWordIndexes(ls) ==
  IF ls = <<>> THEN <<>> ELSE Head(ls).word_indexes \o AllWordIndexes(Tail(ls))

\* C3: the word positions of a section's lines, read in line order, are
\* 0, 1, 2, ...: each token gets the next unused index, so positions are
\* strictly increasing and the first index of a line is one more than the
\* last index of the line before it.
C3_WordPositionsContiguous ==
  LET all == AllWordIndexes(cs.lines) IN
  all = [i \in 1..Len(all) |-> i - 1]

\* C4: a reflow to a different width keeps the word under the cursor:
\* current_word() is the same before and after current_section_or_resize.
\* Re-wrapping keeps every token, so the word always still exists; the
\* proviso is read here in the code's favour, as current_word() being
\* defined after the reflow.
C4_ReflowPreservesWord ==
  (/\ op = "current_section_or_resize"
   /\ arg # pcs.size
   /\ SectionCursor_current_word(pcs) # None
   /\ SectionCursor_current_word(cs) # None) =>
     SectionCursor_current_word(cs) = SectionCursor_current_word(pcs)

\* C5: from any reachable cursor state, next_word() returning true followed
\* by prev_word() returning true ends on the original (line_index,
\* word_index).
C5_NextThenPrevReturns ==
  LET r1 == SectionCursor_next_word(cs)
      r2 == SectionCursor_prev_word(r1.s)
  IN (r1.ret /\ r2.ret) =>
        /\ r2.s.line_index = cs.line_index
        /\ r2.s.word_index = cs.word_index

\* C6: next_line() / prev_line() move the line pointer by exactly one and
\* snap word_index to the new line's first / last word position; on the
\* last line (next_line) or the first line (prev_line) they return false
\* and leave (line_index, word_index) unchanged.
C6_LineStepClamped ==
  /\ (op = "next_line" /\ pcs.line_index < Len(pcs.lines)) =>
        IF pcs.line_index = Len(pcs.lines) - 1
        THEN /\ ret = FALSE
             /\ cs.line_index = pcs.line_index
             /\ cs.word_index = pcs.word_index
        ELSE /\ ret = TRUE
             /\ cs.line_index = pcs.line_index + 1
             /\ cs.word_index = Line_first_word_index(cs.lines[cs.line_index + 1])
  /\ (op = "prev_line" /\ pcs.line_index < Len(pcs.lines)) =>
        IF pcs.line_index = 0
        THEN /\ ret = FALSE
             /\ cs.line_index = pcs.line_index
             /\ cs.word_index = pcs.word_index
        ELSE /\ ret = TRUE
             /\ cs.line_index = pcs.line_index - 1
             /\ cs.word_index = Line_last_word_index(cs.lines[cs.line_index + 1])

\* C7: next_section() on the last section and prev_section() on the first
\* section return false and leave the whole Document Cursor unchanged.
C7_SectionEdgeUnchanged ==
  /\ (op = "next_section" /\ pre.current = get_num_pages(pre.doc) - 1) =>
        (ret = FALSE /\ cursor = pre)
  /\ (op = "prev_section" /\ pre.current = 0) =>
        (ret = FALSE /\ cursor = pre)

\* next_section() was called on the last section with the cursor moved off
\* the section's first line.
C7_Witness ==
  /\ op = "next_section"
  /\ pre.current = get_num_pages(pre.doc) - 1
  /\ pcs.line_index > 0
  /\ ret = FALSE

\* C8: goto_section(index) returns false for every index >= the number of
\* sections and then leaves the cursor unchanged; for every smaller index it
\* returns true and the active section becomes that index.
C8_GotoSectionRange ==
  op = "goto_section" =>
     IF arg >= get_num_pages(pre.doc)
     THEN ret = FALSE /\ cursor = pre
     ELSE /\ ret = TRUE
          /\ section_index(cursor) = arg
          /\ cs.index = arg

\* goto_section was refused for an out-of-range index while the cursor
\* stood past the first section.
C8_Witness ==
  /\ op = "goto_section"
  /\ arg >= get_num_pages(pre.doc)
  /\ pre.current > 0
  /\ ret = FALSE

\* The path the selection rule of C9 describes: at each level the node
\* whose index is <= s and whose next sibling (if any) has an index > s.
RECURSIVE CoveringPath(_, _)
CoveringPath(toc, s) ==
  LET hits == {i \in 1..Len(toc) :
                 /\ toc[i].index <= s
                 /\ (i < Len(toc) => toc[i + 1].index > s)}
  IN IF hits = {} THEN <<>>
     ELSE LET i == CHOOSE k \in hits : \A m \in hits : k <= m IN
          <<toc[i].index>> \o CoveringPath(toc[i].children, s)

\* C9: toc_index returns the root-to-node path of the nodes covering the
\* current section; for {A@0 -> [A1@0, A2@3], B@5} it is [A, A2] at
\* section 4 and [B] at section 5.
C9_TocIndexCoveringPath ==
  op = "toc_index" => ret = CoveringPath(Docs[cursor.doc].toc, section_index(cursor))

Precedes(toc, s) == \A i \in 1..Len(toc) : s < toc[i].index

\* C10: when the current section index is smaller than the index of every
\* top-level TOC node, or the TOC is empty, toc_index returns the empty path.
C10_TocIndexEmptyBeforeFirst ==
  (op = "toc_index" /\ Precedes(Docs[cursor.doc].toc, section_index(cursor))) =>
     ret = <<>>

\* toc_index was called on a section lying before every node of a
\* non-empty TOC.
C10_Witness ==
  /\ op = "toc_index"
  /\ Docs[cursor.doc].toc # <<>>
  /\ Precedes(Docs[cursor.doc].toc, section_index(cursor))
  /\ ret = <<>>

\* The rendered text of s holds no token: it is empty or every physical
\* line of it is blank once whitespace is trimmed.
NoTokens(s) ==
  \A i \in 1..Len(str_lines(s.content)) :
     split_whitespace(str_lines(s.content)[i]) = <<>>

\* C11: a section whose rendered text is empty or only blank lines indexes
\* to zero lines; on it current_line() and current_word() are none, and
\* next_word, prev_word, next_line and prev_line return false and leave
\* line_index unchanged.
C11_BlankSectionInert ==
  /\ NoTokens(cs) =>
        /\ Len(cs.lines) = 0
        /\ SectionCursor_current_line(cs) = None
        /\ SectionCursor_current_word(cs) = None
  /\ (op \in {"next_word", "prev_word", "next_line", "prev_line"} /\ NoTokens(pcs)) =>
        (ret = FALSE /\ cs.line_index = pcs.line_index)

\* C12: a physical line that is empty after whitespace trimming produces no
\* Line entry: every Line of the active section has at least one word
\* position, and the cursor never stands on a zero-word line.
C12_NoZeroWordLine ==
  \A i \in 1..Len(cs.lines) : cs.lines[i].word_indexes # <<>>

\* C17: current_section_or_resize(width) with the cached width changes
\* nothing (lines, line_index, word_index, index, width); after any call the
\* cached width is the requested one.
C17_ResizeSameWidthNoOp ==
  op = "current_section_or_resize" =>
     /\ cs.size = arg
     /\ (arg = pcs.size => cursor = pre)

\* current_section_or_resize was called with the cached width while the
\* cursor stood past the first line.
C17_Witness ==
  /\ op = "current_section_or_resize"
  /\ arg = pcs.size
  /\ pcs.line_index > 0
  /\ pcs.line_index < Len(pcs.lines)

\* The section a successful transition lands on.
TargetSection ==
  CASE op = "next_section" -> pre.current + 1
    [] op = "prev_section" -> pre.current - 1
    [] op = "goto_section" -> arg

RangeContains(l, w) ==
  LET lo == IF l.word_indexes = <<>> THEN 0 ELSE l.word_indexes[1]
      hi == IF l.word_indexes = <<>> THEN 0 ELSE l.word_indexes[Len(l.word_indexes)]
  IN lo <= w /\ w <= hi

\* C20: after a reflow to a different width word_index is unchanged and
\* line_index is the first rebuilt line whose range contains word_index, or
\* 0 when no rebuilt line contains it.
C20_ReflowRelocation ==
  (op = "current_section_or_resize" /\ arg # pcs.size) =>
     /\ cs.word_index = pcs.word_index
     /\ LET hits == {i \in 0..(Len(cs.lines) - 1) :
                        RangeContains(cs.lines[i + 1], pcs.word_index)}
        IN IF hits = {} THEN cs.line_index = 0
           ELSE /\ cs.line_index \in hits
                /\ \A i \in hits : cs.line_index <= i

\* A reflow to a different width relocated the cursor to a line past the
\* first one.
C20_Witness ==
  /\ op = "current_section_or_resize"
  /\ arg # pcs.size
  /\ cs.line_index > 0
  /\ RangeContains(cs.lines[cs.line_index + 1], cs.word_index)

\* C15: a payload that is not valid UTF-8 never crashes the session: at
\* construction, on a section transition and on reflow, loading it ends
\* without a panic and the cursor stays usable.
C15_NoPanicOnMalformedPayload == ~panicked

\* C13: a load returns the (identifier, section_index, word_index) last
\* stored under the same identifier, and a store under one identifier
\* leaves what load returns for every other identifier as it was.
C13_StoreLoadRoundTrip ==
  (op = "load" /\ expect[arg] # None) => loaded = Some(expect[arg][1].state)

\* The file of identifier id is missing, unreadable or does not decode.
Undecodable(id) ==
  \/ files[config_path(id)] = None
  \/ files[config_path(id)][1] \in {Unreadable, Truncated, <<>>}

\* C14: DocState::load surfaces no error: for a missing, unreadable or
\* corrupt entry it returns the requested identifier with section_index 0
\* and word_index 0.
C14_LoadDefaultsOnBadEntry ==
  (op = "load" /\ Undecodable(arg)) =>
     loaded = Some([identifier |-> arg, section_index |-> 0, word_index |-> 0])

\* A load met a file cut short by a failed write.
C14_Witness ==
  /\ op = "load"
  /\ files[config_path(arg)] \in {Some(Truncated), Some(<<>>)}
  /\ loaded = Some([identifier |-> arg, section_index |-> 0, word_index |-> 0])

\* The cursor position: section, line and word.
Position(c) ==
  <<c.current, c.current_section.line_index, c.current_section.word_index>>

\* C16: a next_word comes from the timer only when the status is Running
\* and the pace has elapsed since the last word advance; while the status
\* is Paused no message is synthesized and the position changes only in
\* answer to an event that was read; no iteration both reads an event and
\* takes a message from the timer.
C16_PausedNeverSynthesizes ==
  [][/\ (pc = "handle_event" /\ origin'.timer) =>
           /\ msg' = Some("NextWord")
           /\ model.status = "Running"
           /\ model'.elapsed >= model.speed
           /\ ~origin'.read
     /\ (pc = "handle_event" /\ model.status = "Paused" /\ ~origin'.read) =>
           /\ msg' = None
           /\ cursor' = cursor
     /\ (model.status = "Paused" /\ Position(cursor') # Position(cursor)) =>
           (origin.read /\ ~origin.timer)
    ]_vars

\* A paused reader that had advanced waited out a poll timeout past its
\* pace and got no message.
C16_Witness ==
  /\ op = "handle_event" /\ arg = PollTimeout
  /\ model.status = "Paused"
  /\ model.elapsed >= model.speed
  /\ cursor.current_section.word_index > 0
  /\ msg = None /\ ~origin.timer /\ ~origin.read

\* C18: with no event read since a timer-driven word advance, the next
\* timer-driven advance comes no later than the pace after it.
C18_AdvanceWithinPace ==
  (pc = "update" /\ origin.timer /\ msg = Some("NextWord") /\ quiet) =>
     model.elapsed <= model.speed

\* The cursor a later session builds from the snapshot of this one.
Resumed == DocumentCursor_new(cursor.doc, DocumentCursor_doc_state(cursor))

\* C21: a cursor built over the same document from the doc_state() snapshot
\* of a position that shows a word has the same section index, the same
\* word_index and the same current_word().
C21_SaveResumeRoundTrip ==
  (~panicked /\ InRange(cs) /\ SectionCursor_current_word(cs) # None) =>
     /\ section_index(Resumed) = section_index(cursor)
     /\ Resumed.current_section.word_index = cs.word_index
     /\ SectionCursor_current_word(Resumed.current_section)
          = SectionCursor_current_word(cs)

\* C22: a next_word() called on a position that shows a word returns false
\* exactly when that word is the last token of the section, and after a
\* call that returns true current_word() is defined.
C22_NextWordPresentsEveryToken ==
  (op = "next_word" /\ InRange(pcs) /\ SectionCursor_current_word(pcs) # None) =>
     /\ (ret = FALSE) = OnLastWord(pcs)
     /\ (ret = TRUE => SectionCursor_current_word(cs) # None)

\* The cursor c shows the last word of the last section of its document.
OnLastWordOfDocument(c) ==
  /\ section_index(c) = get_num_pages(c.doc) - 1
  /\ OnLastWord(c.current_section)
  /\ SectionCursor_current_word(c.current_section) # None

\* C23: a reader left running with no further input eventually stands on
\* the last word of the last section and stays there.
C23_AutoAdvanceStabilizes ==
  <>[](~panicked /\ OnLastWordOfDocument(cursor))

\* The section content() is about to render.
Rendered == current_section_or_resize(cursor, term_width).current_section

\* C24: whenever the content view is rendered with current_line() defined,
\* word_index is at least the first word index of the current line and
\* word_index - first_word_index is less than the number of tokens of
\* that line.
C24_HighlightInRange ==
  (pc = "draw" /\ ~panicked /\ SectionCursor_current_line(Rendered) # None) =>
     LET l == SectionCursor_current_line(Rendered)[1] IN
     /\ Rendered.word_index >= Line_first_word_index(l)
     /\ Rendered.word_index - Line_first_word_index(l)
          < Len(split_whitespace(l.content))

\* C25: the loop that feeds update()'s follow-up message back into update()
\* makes at most three calls: after the third call no message is left.
C25_MessageChainTerminates ==
  /\ calls <= 3
  /\ (calls = 3 => msg = None)

\* ToggleStatus -> NextWord -> NextSection -> None has run.
C25_Witness ==
  /\ op = "update" /\ calls = 3 /\ msg = None /\ pc = "draw"
  /\ model.status = "Running"

====
